---- MODULE Spec2Model ----
(***************************************************************************)
(* Job orchestration and event streaming of the backend:                   *)
(*   app/runtime/jobs.py         JobStore                                  *)
(*   app/runtime/queue.py        JobQueueManager (two lanes, one worker    *)
(*                               loop per lane)                            *)
(*   app/runtime/concurrency.py  ConcurrencyManager (one semaphore per     *)
(*                               resource class)                           *)
(*   app/runtime/events.py       sse_event_stream, periodic_cleanup_task   *)
(*   app/api/routes_jobs.py      create / events / cancel handlers         *)
(*   app/services/providers/     LocalSD15Provider, LocalTripoSRProvider   *)
(*                                                                         *)
(* The program is a single asyncio event loop: a coroutine runs until it   *)
(* reaches an await that really suspends (an empty or full asyncio.Queue,  *)
(* a semaphore without permits, asyncio.to_thread, an unset Event, sleep,  *)
(* the consumer of an async generator).  The store lock is never held      *)
(* over such a point, so every JobStore method is one atomic step.         *)
(***************************************************************************)
EXTENDS Integers, Sequences, FiniteSets, TLC

(***************************************************************************)
(* Bounds of the model                                                     *)
(***************************************************************************)
MaxJobs == 2            \* number of create calls explored
StreamJobs == 1         \* number of create calls explored together with streams
NumStreams == 1         \* number of SSE streams explored
NumWaiters == 1         \* number of wait() callers explored
NumExecs == 2           \* concurrent provider executions per class (ProviderSpec)
TotalSteps == 1         \* params["steps"] of an img2img job
TTL == 1                \* JobStore.ttl_seconds
MaxEvents == 3          \* JobStore.max_events_per_job
MaxQueued == 1          \* QueueLimits.max_sd_queued
MaxTriposrQueued == 2   \* QueueLimits.max_triposr_queued
MaxTime == TTL + 1      \* last value of the clock that is explored
NumSubscribers == 2     \* direct callers of JobStore.subscribe (FanoutSpec)
NumCallers == 2         \* request handlers that run at the same time (LockSpec)
MaxEmits == MaxEvents + 2   \* events per job explored under direct store calls

(***************************************************************************)
(* Program constants                                                       *)
(***************************************************************************)
SdPermits == 1          \* ConcurrencyLimits.sd_img2img
TriposrPermits == 1     \* ConcurrencyLimits.triposr
WorkersPerLane == 1     \* JobQueueManager.start: one worker task per lane
QueueMaxsize == 0       \* JobStore.subscribe: asyncio.Queue() has maxsize 0

JobType == {"img2img", "triposr"}
JobStatus == {"queued", "running", "succeeded", "failed", "cancelled"}
Terminal == {"succeeded", "failed", "cancelled"}
TerminalEvents == {"completed", "failed", "cancelled"}

None == -1              \* Optional[int] None
NoneStr == "None"       \* Optional[...] None for result / error

JobIds == 1..MaxJobs
Streams == 1..NumStreams
Waiters == 1..NumWaiters
Subscribers == 1..NumSubscribers
\* one sse connection and one waiting caller, for the specifications whose
\* property is about a single one
OneStream == {1}
OneWaiter == {1}
\* the lane worker tasks <<lane, k>> created by JobQueueManager.start
Workers == JobType \X (1..WorkersPerLane)
\* provider executions <<class, k>> started directly by concurrent callers
Execs == JobType \X (1..NumExecs)
Lane(w) == w[1]

VARIABLES
    now,            \* int(time.time())
    nextId,         \* number of identifiers handed out by uuid4 so far
    jobs,           \* JobStore._jobs            : job_id -> JobRecord
    subscribers,    \* JobStore._subscribers     : job_id -> set of queues
    event_history,  \* JobStore._event_history   : job_id -> list of JobEvent
    emit_count,     \* number of JobEvent objects emitted per job (identity of events)
    chan,           \* the asyncio.Queue of each stream's subscription
    queues,         \* JobQueueManager._sd_queue / _triposr_queue
    putters,        \* submitters suspended in asyncio.Queue.put
    worker,         \* the tasks that run an executor: position, job, step
    sem,            \* ConcurrencyManager.sd_img2img / .triposr  (Semaphore._value)
    streams,        \* the sse_event_stream generators
    waiters         \* callers of JobStore.wait

storeVars == <<jobs, subscribers, event_history, emit_count, chan>>
vars == <<now, nextId, jobs, subscribers, event_history, emit_count, chan,
          queues, putters, worker, sem, streams, waiters>>

(***************************************************************************)
(* jobs.py: records                                                        *)
(***************************************************************************)
JobProgress == [current |-> 0, total |-> 0, percent |-> 0, stage |-> ""]

\* JobRecord without created_at and payload, which no operation reads back
JobRecord(job_type) ==
    [type |-> job_type, status |-> "queued",
     started_at |-> None, ended_at |-> None, progress |-> JobProgress,
     result |-> NoneStr, error |-> NoneStr,
     cancel_requested |-> FALSE, done |-> FALSE]

\* A JobEvent object; n is its position among the events emitted for the job.
JobEvent(job_id, event, data) ==
    [event |-> event, data |-> data, n |-> emit_count[job_id] + 1]

Live(job_id) == job_id \in DOMAIN jobs

\* asyncio.Queue(maxsize=self.limits.max_sd_queued / max_triposr_queued)
Limit(lane) == IF lane = "img2img" THEN MaxQueued ELSE MaxTriposrQueued

Permits(cls) == IF cls = "img2img" THEN SdPermits ELSE TriposrPermits

(***************************************************************************)
(* JobStore.emit                                                           *)
(***************************************************************************)
\* mutant: a full history keeps its oldest events and drops the new one
HistAppendKeepOldest(hist, ev) ==
    LET h == Append(hist, ev)
    IN  IF Len(h) > MaxEvents THEN SubSeq(h, 1, MaxEvents) ELSE h

\* hist.append(ev); del hist[: len(hist) - max_events_per_job]
HistAppend(hist, ev) ==
    LET h == Append(hist, ev)
    IN  IF Len(h) > MaxEvents
        THEN SubSeq(h, Len(h) - MaxEvents + 1, Len(h))
        ELSE h

\* mutant: the event is put in front of the pending ones
PutNowaitFront(q, ev) == <<ev>> \o q

\* q.put_nowait(ev) on an unbounded asyncio.Queue
PutNowait(q, ev) == Append(q, ev)

\* mutant: only one of the subscriber queues is served
RecipientsFirstOnly(job_id) ==
    IF subscribers[job_id] = {} THEN {}
    ELSE {CHOOSE q \in subscribers[job_id] : \A r \in subscribers[job_id] : q <= r}

\* "for q in list(self._subscribers.get(job_id, set()))"
Recipients(job_id) ==
    IF job_id \in DOMAIN subscribers THEN subscribers[job_id] ELSE {}

\* mutant: the subscriber queues hold one event
QueueFullAtOne(q) == Len(q) >= 1

\* asyncio.Queue.full(): never full when maxsize <= 0
QueueFull(q) == IF QueueMaxsize <= 0 THEN FALSE ELSE Len(q) >= QueueMaxsize

\* "try: q.put_nowait(ev) except asyncio.QueueFull: pass" for every subscriber
Emit(job_id, event, data) ==
    IF ~Live(job_id)
    THEN UNCHANGED <<event_history, chan, emit_count>>
    ELSE LET ev == JobEvent(job_id, event, data)
         IN  /\ event_history' =
                    [event_history EXCEPT ![job_id] = HistAppend(@, ev)]
             /\ chan' = [c \in DOMAIN chan |->
                            IF c \in Recipients(job_id) /\ ~QueueFull(chan[c])
                            THEN PutNowait(chan[c], ev)
                            ELSE chan[c]]
             /\ emit_count' = [emit_count EXCEPT ![job_id] = @ + 1]

(***************************************************************************)
(* JobStore methods.  Each is called on a live job_id; on any other id the *)
(* leading self.get raises KeyError (see the callers).                     *)
(***************************************************************************)
\* mutant: create enters the job without emitting "queued"
CreateSilent(job_id, job_type) ==
    /\ jobs' = [j \in DOMAIN jobs \cup {job_id} |->
                    IF j = job_id THEN JobRecord(job_type) ELSE jobs[j]]
    /\ subscribers' = [j \in DOMAIN subscribers \cup {job_id} |->
                    IF j = job_id THEN {} ELSE subscribers[j]]
    /\ event_history' = [j \in DOMAIN event_history \cup {job_id} |->
                    IF j = job_id THEN <<>> ELSE event_history[j]]
    /\ UNCHANGED <<emit_count, chan>>

\* JobStore.create: the record, the empty subscriber set and the history are
\* entered under the lock, then "queued" is emitted.
Create(job_id, job_type) ==
    /\ jobs' = [j \in DOMAIN jobs \cup {job_id} |->
                    IF j = job_id THEN JobRecord(job_type) ELSE jobs[j]]
    /\ subscribers' = [j \in DOMAIN subscribers \cup {job_id} |->
                    IF j = job_id THEN {} ELSE subscribers[j]]
    /\ event_history' = [j \in DOMAIN event_history \cup {job_id} |->
                    IF j = job_id
                    THEN HistAppend(<<>>, JobEvent(job_id, "queued", [status |-> "queued"]))
                    ELSE event_history[j]]
    /\ emit_count' = [emit_count EXCEPT ![job_id] = @ + 1]
    /\ UNCHANGED chan

SetRunningRec(rec) == [rec EXCEPT !.status = "running", !.started_at = now]

set_running(job_id) ==
    /\ jobs' = [jobs EXCEPT ![job_id] = SetRunningRec(@)]
    /\ Emit(job_id, "started", [status |-> "running"])
    /\ UNCHANGED subscribers

\* mutant: a total of 0 counts as finished
PercentFullWhenEmpty(current, total) ==
    IF total # 0 THEN (current * 100) \div total ELSE 100

\* "(current / total * 100.0) if total else 0.0", kept to whole per cent
Percent(current, total) == IF total # 0 THEN (current * 100) \div total ELSE 0

set_progress(job_id, current, total, stage) ==
    /\ jobs' = [jobs EXCEPT ![job_id].progress =
                    [current |-> current, total |-> total,
                     percent |-> Percent(current, total), stage |-> stage]]
    /\ Emit(job_id, "progress",
            [current |-> current, total |-> total,
             percent |-> Percent(current, total), stage |-> stage])
    /\ UNCHANGED subscribers

\* mutant: succeed sets the status and forgets rec.result
SucceedRecNoResult(rec, result) ==
    [rec EXCEPT !.status = "succeeded", !.ended_at = now, !.done = TRUE]

SucceedRec(rec, result) ==
    [rec EXCEPT !.status = "succeeded", !.ended_at = now,
                !.result = result, !.done = TRUE]

succeed(job_id, result) ==
    /\ jobs' = [jobs EXCEPT ![job_id] = SucceedRec(@, result)]
    /\ Emit(job_id, "completed", [status |-> "succeeded", result |-> result])
    /\ UNCHANGED subscribers

\* mutant: fail sets the status and forgets rec.error
FailRecNoMessage(rec, message) ==
    [rec EXCEPT !.status = "failed", !.ended_at = now, !.done = TRUE]

FailRec(rec, message) ==
    [rec EXCEPT !.status = "failed", !.ended_at = now,
                !.error = message, !.done = TRUE]

fail(job_id, message) ==
    /\ jobs' = [jobs EXCEPT ![job_id] = FailRec(@, message)]
    /\ Emit(job_id, "failed", [status |-> "failed", error |-> message])
    /\ UNCHANGED subscribers

\* mutant: cancel of a queued job sets the status and not the flag
CancelRecStatusOnly(rec) ==
    IF rec.status = "queued"
    THEN [rec EXCEPT !.status = "cancelled", !.ended_at = now, !.done = TRUE]
    ELSE [rec EXCEPT !.cancel_requested = TRUE]

\* mutant: cancel of a queued job forgets rec.done.set()
CancelRecNoSignal(rec) ==
    IF rec.status = "queued"
    THEN [rec EXCEPT !.cancel_requested = TRUE, !.status = "cancelled",
                     !.ended_at = now]
    ELSE [rec EXCEPT !.cancel_requested = TRUE]

\* mutant: cancel pre-empts a running job
CancelRecPreempt(rec) ==
    IF rec.status \in {"queued", "running"}
    THEN [rec EXCEPT !.cancel_requested = TRUE, !.status = "cancelled",
                     !.ended_at = now, !.done = TRUE]
    ELSE [rec EXCEPT !.cancel_requested = TRUE]

CancelRec(rec) ==
    IF rec.status = "queued"
    THEN [rec EXCEPT !.cancel_requested = TRUE, !.status = "cancelled",
                     !.ended_at = now, !.done = TRUE]
    ELSE [rec EXCEPT !.cancel_requested = TRUE]

cancel(job_id) ==
    /\ jobs' = [jobs EXCEPT ![job_id] = CancelRec(@)]
    /\ IF jobs[job_id].status = "queued"
       THEN Emit(job_id, "cancelled", [status |-> "cancelled"])
       ELSE UNCHANGED <<event_history, chan, emit_count>>
    /\ UNCHANGED subscribers

\* mutant: the sweep does not look at the status
ExpiredByAgeOnly(t) ==
    {j \in DOMAIN jobs :
        /\ jobs[j].ended_at # None
        /\ t - jobs[j].ended_at > TTL}

\* mutant: the sweep removes a job whose age equals the TTL
ExpiredInclusive(t) ==
    {j \in DOMAIN jobs :
        /\ jobs[j].status \in Terminal
        /\ jobs[j].ended_at # None
        /\ t - jobs[j].ended_at >= TTL}

\* the jobs cleanup_expired removes when it runs at time t
Expired(t) ==
    {j \in DOMAIN jobs :
        /\ jobs[j].status \in Terminal
        /\ jobs[j].ended_at # None
        /\ t - jobs[j].ended_at > TTL}

cleanup_expired ==
    LET removed == Expired(now)
    IN  /\ jobs' = [j \in DOMAIN jobs \ removed |-> jobs[j]]
        /\ subscribers' = [j \in DOMAIN subscribers \ removed |-> subscribers[j]]
        /\ event_history' = [j \in DOMAIN event_history \ removed |-> event_history[j]]
        /\ UNCHANGED <<chan, emit_count>>

\* "return len(removed)"
cleanup_count == Cardinality(Expired(now))

list_events_snapshot(job_id) ==
    IF job_id \in DOMAIN event_history THEN event_history[job_id] ELSE <<>>

(***************************************************************************)
(* queue.py: JobQueueManager                                               *)
(***************************************************************************)
sd_queue == queues["img2img"]
triposr_queue == queues["triposr"]

\* mutant: the lane queues are built without a maxsize
FullNever(lane) == FALSE

Full(lane) == Len(queues[lane]) >= Limit(lane)

\* JobQueueManager.enqueue: await queue.put(job_id).  asyncio.Queue.put
\* inserts at once when the queue has room and otherwise suspends the caller
\* until a slot is free; it never raises QueueFull.
Enqueue(job_id, lane) ==
    IF Full(lane)
    THEN /\ putters' = putters \cup {[job |-> job_id, lane |-> lane]}
         /\ UNCHANGED queues
    ELSE /\ queues' = [queues EXCEPT ![lane] = Append(@, job_id)]
         /\ UNCHANGED putters

\* routes_jobs.py create_img2img_job / create_triposr_job: store.create, then
\* queue.enqueue.  The except branch (store.fail, HTTP 429) is not reachable:
\* enqueue raises only for an unknown job type.
Submit(job_type) ==
    /\ nextId < MaxJobs
    /\ nextId' = nextId + 1
    /\ Create(nextId + 1, job_type)
    /\ Enqueue(nextId + 1, job_type)
    /\ UNCHANGED <<now, worker, sem, streams, waiters>>

\* mutant: a resumed put returns without inserting the id
PutResumeLost(p) ==
    /\ p \in putters
    /\ ~Full(p.lane)
    /\ putters' = putters \ {p}
    /\ UNCHANGED <<now, nextId, storeVars, queues, worker, sem, streams, waiters>>

\* a submitter suspended in put is resumed once its lane has room
PutResume(p) ==
    /\ p \in putters
    /\ ~Full(p.lane)
    /\ queues' = [queues EXCEPT ![p.lane] = Append(@, p.job)]
    /\ putters' = putters \ {p}
    /\ UNCHANGED <<now, nextId, storeVars, worker, sem, streams, waiters>>

\* routes_jobs.py cancel_job on a known id
Cancel(job_id) ==
    /\ Live(job_id)
    /\ cancel(job_id)
    /\ UNCHANGED <<now, nextId, queues, putters, worker, sem, streams, waiters>>

IdleWorker == [pc |-> "get", job |-> 0, step |-> 0, err |-> NoneStr]

At(w, pc) == worker[w].pc = pc

Goto(w, pc) == worker' = [worker EXCEPT ![w].pc = pc]

\* what the worker loop does with a job id it took from its queue
Dequeued(job_id) == [IdleWorker EXCEPT !.pc = "exec", !.job = job_id]

\* mutant: the loop does not await the executor (it takes the next job id while
\* the inference of the previous one is still in flight)
WorkerGetWhileBusy(w) ==
    /\ worker[w].pc \in {"get", "run"}
    /\ queues[Lane(w)] # <<>>
    /\ queues' = [queues EXCEPT ![Lane(w)] = Tail(@)]
    /\ worker' = [worker EXCEPT ![w] = Dequeued(Head(queues[Lane(w)]))]
    /\ UNCHANGED <<now, nextId, storeVars, putters, sem, streams, waiters>>

\* mutant: the lane queue is a stack, get takes the newest job id
WorkerGetNewest(w) ==
    /\ At(w, "get")
    /\ queues[Lane(w)] # <<>>
    /\ queues' = [queues EXCEPT ![Lane(w)] = SubSeq(@, 1, Len(@) - 1)]
    /\ worker' = [worker EXCEPT
                     ![w] = Dequeued(queues[Lane(w)][Len(queues[Lane(w)])])]
    /\ UNCHANGED <<now, nextId, storeVars, putters, sem, streams, waiters>>

\* _sd_worker_loop / _triposr_worker_loop: job_id = await queue.get()
WorkerGet(w) ==
    /\ At(w, "get")
    /\ queues[Lane(w)] # <<>>
    /\ queues' = [queues EXCEPT ![Lane(w)] = Tail(@)]
    /\ worker' = [worker EXCEPT ![w] = Dequeued(Head(queues[Lane(w)]))]
    /\ UNCHANGED <<now, nextId, storeVars, putters, sem, streams, waiters>>

(***************************************************************************)
(* The lane executors execute_img2img / execute_triposr handed to          *)
(* JobQueueManager, and the JobEmitter handed to the providers.            *)
(* Executor contract: fetch the job from the store, run the provider, then *)
(* call exactly one of succeed / fail; a provider failure becomes fail.    *)
(* JobEmitter.started is JobStore.set_running, JobEmitter.progress is      *)
(* JobStore.set_progress.                                                  *)
(***************************************************************************)
InCS == {"cs", "cs2", "run"}

\* the positions of an execution whose next step is a JobStore call
StoreCallPcs(lane) ==
    IF lane = "img2img"
    THEN {"exec", "cs", "succeed", "fail"}
    ELSE {"exec", "provider", "cs", "cs2", "post", "succeed", "fail"}

\* rec = await store.get(job_id); provider.execute(payload=rec.payload, ...)
ExecStart(w) ==
    /\ At(w, "exec")
    /\ Live(worker[w].job)
    /\ Goto(w, "provider")
    /\ UNCHANGED <<now, nextId, storeVars, queues, putters, sem, streams, waiters>>

\* the worker loop when the executor raises: "try: await execute(job_id)
\* finally: task_done()" has no except clause, the exception ends the loop
OnExecutorRaise == "dead"

\* asyncio.Semaphore.release on leaving "async with"
Release(value) == value + 1

\* A JobStore call on an evicted id raises KeyError; the executor routes the
\* failure into store.fail, which raises KeyError again, so the exception
\* leaves the executor.  "async with" releases a held permit on the way out.
ExecKeyError(w) ==
    /\ worker[w].pc \in StoreCallPcs(Lane(w))
    /\ ~Live(worker[w].job)
    /\ IF worker[w].pc \in InCS
       THEN sem' = [sem EXCEPT ![Lane(w)] = Release(@)]
       ELSE UNCHANGED sem
    /\ Goto(w, OnExecutorRaise)
    /\ UNCHANGED <<now, nextId, storeVars, queues, putters, streams, waiters>>

\* provider.execute: "if not is_loaded() or pipeline is None: raise"
ProviderNotLoaded(w) ==
    /\ At(w, "provider")
    /\ worker' = [worker EXCEPT ![w].pc = "fail",
                    ![w].err = IF Lane(w) = "img2img" THEN "Model not loaded"
                               ELSE "TripoSR model not available"]
    /\ UNCHANGED <<now, nextId, storeVars, queues, putters, sem, streams, waiters>>

\* mutant: set_scheduler and the inference are not wrapped in "async with"
SdEnterUnguarded(w) ==
    /\ Lane(w) = "img2img"
    /\ At(w, "provider")
    /\ Goto(w, "cs")
    /\ UNCHANGED <<now, nextId, storeVars, queues, putters, sem, streams, waiters>>

\* LocalSD15Provider.execute up to "async with self.deps.concurrency.sd_img2img"
SdEnter(w) ==
    /\ Lane(w) = "img2img"
    /\ At(w, "provider")
    /\ Goto(w, "acquire")
    /\ UNCHANGED <<now, nextId, storeVars, queues, putters, sem, streams, waiters>>

\* LocalTripoSRProvider.execute: emitter.progress(1, 4, "preprocess")
TripoEnter(w) ==
    /\ Lane(w) = "triposr"
    /\ At(w, "provider")
    /\ Live(worker[w].job)
    /\ set_progress(worker[w].job, 1, 4, "preprocess")
    /\ Goto(w, "acquire")
    /\ UNCHANGED <<now, nextId, queues, putters, sem, streams, waiters>>

\* mutant: the critical section is entered without looking at the permits
AcquireUnchecked(value) == TRUE

\* asyncio.Semaphore.acquire proceeds only while _value > 0
CanAcquire(value) == value > 0

\* "async with self.deps.concurrency.sd_img2img" / ".triposr"
Acquire(w) ==
    /\ At(w, "acquire")
    /\ CanAcquire(sem[Lane(w)])
    /\ sem' = [sem EXCEPT ![Lane(w)] = @ - 1]
    /\ Goto(w, "cs")
    /\ UNCHANGED <<now, nextId, storeVars, queues, putters, streams, waiters>>

\* set_scheduler(...); await emitter.started(); asyncio.to_thread(_run_sync)
SdStarted(w) ==
    /\ Lane(w) = "img2img"
    /\ At(w, "cs")
    /\ Live(worker[w].job)
    /\ set_running(worker[w].job)
    /\ Goto(w, "run")
    /\ UNCHANGED <<now, nextId, queues, putters, sem, streams, waiters>>

\* progress_callback(step, ...): emitter.progress(step + 1, total_steps, "denoise")
SdProgress(w) ==
    /\ Lane(w) = "img2img"
    /\ At(w, "run")
    /\ worker[w].step < TotalSteps
    /\ Live(worker[w].job)
    /\ set_progress(worker[w].job, worker[w].step + 1, TotalSteps, "denoise")
    /\ worker' = [worker EXCEPT ![w].step = @ + 1]
    /\ UNCHANGED <<now, nextId, queues, putters, sem, streams, waiters>>

\* emitter.progress(2, 4, "inference")
TripoInference(w) ==
    /\ Lane(w) = "triposr"
    /\ At(w, "cs")
    /\ Live(worker[w].job)
    /\ set_progress(worker[w].job, 2, 4, "inference")
    /\ Goto(w, "cs2")
    /\ UNCHANGED <<now, nextId, queues, putters, sem, streams, waiters>>

\* await emitter.started(); await self.svc.run(...)
TripoStarted(w) ==
    /\ Lane(w) = "triposr"
    /\ At(w, "cs2")
    /\ Live(worker[w].job)
    /\ set_running(worker[w].job)
    /\ Goto(w, "run")
    /\ UNCHANGED <<now, nextId, queues, putters, sem, streams, waiters>>

\* the inference returns; leaving "async with" releases the permit
RunReturn(w) ==
    /\ At(w, "run")
    /\ Lane(w) = "img2img" => worker[w].step = TotalSteps
    /\ sem' = [sem EXCEPT ![Lane(w)] = Release(@)]
    /\ Goto(w, IF Lane(w) = "img2img" THEN "succeed" ELSE "post")
    /\ UNCHANGED <<now, nextId, storeVars, queues, putters, streams, waiters>>

\* mutant: an exception inside the critical section keeps the permit
RunRaiseKeepsPermit(w) ==
    /\ At(w, "run")
    /\ worker' = [worker EXCEPT ![w].pc = "fail", ![w].err = "inference failed"]
    /\ UNCHANGED <<now, nextId, storeVars, queues, putters, sem, streams, waiters>>

\* the inference raises; leaving "async with" releases the permit
RunRaise(w) ==
    /\ At(w, "run")
    /\ sem' = [sem EXCEPT ![Lane(w)] = Release(@)]
    /\ worker' = [worker EXCEPT ![w].pc = "fail", ![w].err = "inference failed"]
    /\ UNCHANGED <<now, nextId, storeVars, queues, putters, streams, waiters>>

\* emitter.progress(4, 4, "done")
TripoDone(w) ==
    /\ Lane(w) = "triposr"
    /\ At(w, "post")
    /\ Live(worker[w].job)
    /\ set_progress(worker[w].job, 4, 4, "done")
    /\ Goto(w, "succeed")
    /\ UNCHANGED <<now, nextId, queues, putters, sem, streams, waiters>>

\* store.succeed(job_id, result); the executor returns; task_done(); next get
ExecSucceed(w) ==
    /\ At(w, "succeed")
    /\ Live(worker[w].job)
    /\ succeed(worker[w].job, "result")
    /\ worker' = [worker EXCEPT ![w] = IdleWorker]
    /\ UNCHANGED <<now, nextId, queues, putters, sem, streams, waiters>>

\* store.fail(job_id, str(exc)); the executor returns; task_done(); next get
ExecFail(w) ==
    /\ At(w, "fail")
    /\ Live(worker[w].job)
    /\ fail(worker[w].job, worker[w].err)
    /\ worker' = [worker EXCEPT ![w] = IdleWorker]
    /\ UNCHANGED <<now, nextId, queues, putters, sem, streams, waiters>>

(***************************************************************************)
(* time and events.py periodic_cleanup_task                                *)
(***************************************************************************)
Tick ==
    /\ now < MaxTime
    /\ now' = now + 1
    /\ UNCHANGED <<nextId, storeVars, queues, putters, worker, sem, streams, waiters>>

Cleanup ==
    /\ cleanup_expired
    /\ UNCHANGED <<now, nextId, queues, putters, worker, sem, streams, waiters>>

\* the task that runs periodic_cleanup_task
CleanupTask == <<"cleanup", 1>>

\* mutant: an exception of a sweep leaves the loop
OnSweepRaisePropagates == "dead"

\* "except Exception: pass", then "await asyncio.sleep(interval_seconds)"
OnSweepRaise == "sleep"

\* "await store.cleanup_expired()" returns; step records that a sweep was
\* completed after an earlier one had raised
SweepRun(t) ==
    /\ At(t, "sweep")
    /\ cleanup_expired
    /\ worker' = [worker EXCEPT ![t].pc = "sleep",
                    ![t].step = IF worker[t].err # NoneStr THEN 1 ELSE @]
    /\ UNCHANGED <<now, nextId, queues, putters, sem, streams, waiters>>

\* "await store.cleanup_expired()" raises; err records the exception
SweepRaise(t) ==
    /\ At(t, "sweep")
    /\ worker' = [worker EXCEPT ![t].pc = OnSweepRaise, ![t].err = "sweep failed"]
    /\ UNCHANGED <<now, nextId, storeVars, queues, putters, sem, streams, waiters>>

\* asyncio.sleep(interval_seconds) returns, "while True" starts the next sweep
SweepWake(t) ==
    /\ At(t, "sleep")
    /\ Goto(t, "sweep")
    /\ UNCHANGED <<now, nextId, storeVars, queues, putters, sem, streams, waiters>>

(***************************************************************************)
(* events.py: sse_event_stream behind routes_jobs.py job_events            *)
(***************************************************************************)
IdleStream == [pc |-> "idle", job |-> 0, snap |-> <<>>, pos |-> 0,
               snap_n |-> 0, delivered |-> <<>>]

\* what the consumer has received after a yield of ev
Yield(delivered, ev) == Append(delivered, ev)

\* job_events: "await store.get(job_id)" succeeded, the response is created
StreamOpen(s, job_id) ==
    /\ streams[s].pc = "idle"
    /\ Live(job_id)
    /\ streams' = [streams EXCEPT ![s].pc = "open", ![s].job = job_id]
    /\ UNCHANGED <<now, nextId, storeVars, queues, putters, worker, sem, waiters>>

\* history = await store.list_events_snapshot(job_id); the generator runs on
\* to its first yield.  snap_n remembers how many events had been emitted.
StreamSnapshot(s) ==
    LET history == list_events_snapshot(streams[s].job)
    IN  /\ streams[s].pc = "open"
        /\ history # <<>>
        /\ streams' = [streams EXCEPT
                ![s].pc = "replay", ![s].snap = history, ![s].pos = 1,
                ![s].snap_n = emit_count[streams[s].job],
                ![s].delivered = Yield(@, history[1])]
        /\ UNCHANGED <<now, nextId, storeVars, queues, putters, worker, sem, waiters>>

\* the consumer asks for the next item while history is being replayed
StreamReplay(s) ==
    /\ streams[s].pc = "replay"
    /\ streams[s].pos < Len(streams[s].snap)
    /\ streams' = [streams EXCEPT
            ![s].pos = @ + 1,
            ![s].delivered = Yield(@, streams[s].snap[streams[s].pos + 1])]
    /\ UNCHANGED <<now, nextId, storeVars, queues, putters, worker, sem, waiters>>

\* mutant: subscribe pre-loads the new queue with the buffered history
NewQueueWithHistory(job_id) == list_events_snapshot(job_id)

\* JobStore.subscribe: q = asyncio.Queue() starts empty
NewQueue(job_id) == <<>>

Subscribe(job_id, q) ==
    /\ subscribers' = [subscribers EXCEPT ![job_id] = @ \cup {q}]
    /\ chan' = [chan EXCEPT ![q] = NewQueue(job_id)]
    /\ UNCHANGED <<jobs, event_history, emit_count>>

\* q = await store.subscribe(job_id), once the last history item was taken
StreamSubscribe(s) ==
    /\ streams[s].pc = "replay"
    /\ streams[s].pos = Len(streams[s].snap)
    /\ Live(streams[s].job)
    /\ Subscribe(streams[s].job, s)
    /\ streams' = [streams EXCEPT ![s].pc = "live"]
    /\ UNCHANGED <<now, nextId, queues, putters, worker, sem, waiters>>

\* JobStore.get / JobStore.subscribe: "if job_id not in self._jobs: raise
\* KeyError(job_id)"
NotFound(job_id) == job_id \notin DOMAIN jobs

\* mutant: subscribe registers the queue under an id that is not in the table
SubscribeUnknownRegisters(job_id, q) ==
    /\ subscribers' = [j \in DOMAIN subscribers \cup {job_id} |->
                          IF j = job_id THEN {q} ELSE subscribers[j]]
    /\ UNCHANGED <<jobs, event_history, emit_count, chan>>

\* JobStore.subscribe on an id that is not in the table: KeyError is raised
\* before anything is changed
SubscribeUnknown(job_id, q) == UNCHANGED storeVars

\* subscribe raises KeyError for an evicted job (also right after an empty
\* snapshot); the generator ends before its try block
StreamSubscribeKeyError(s) ==
    /\ \/ streams[s].pc = "replay" /\ streams[s].pos = Len(streams[s].snap)
       \/ streams[s].pc = "open"
    /\ NotFound(streams[s].job)
    /\ SubscribeUnknown(streams[s].job, s)
    /\ streams' = [streams EXCEPT ![s].pc = "notfound"]
    /\ UNCHANGED <<now, nextId, queues, putters, worker, sem, waiters>>

\* job_events on an unknown id: store.get raises KeyError, HTTP 404
StreamOpenUnknown(s, job_id) ==
    /\ streams[s].pc = "idle"
    /\ NotFound(job_id)
    /\ streams' = [streams EXCEPT ![s].pc = "notfound", ![s].job = job_id]
    /\ UNCHANGED <<now, nextId, storeVars, queues, putters, worker, sem, waiters>>

\* the live loop "while True: ev = await q.get(); yield ev": the position of
\* the generator after it has yielded ev
AfterLiveYield(ev) == "live"

StreamLive(s) ==
    /\ streams[s].pc = "live"
    /\ chan[s] # <<>>
    /\ streams' = [streams EXCEPT ![s].delivered = Yield(@, Head(chan[s])),
                                  ![s].pc = AfterLiveYield(Head(chan[s]))]
    /\ chan' = [chan EXCEPT ![s] = Tail(@)]
    /\ UNCHANGED <<now, nextId, jobs, subscribers, event_history, emit_count,
                   queues, putters, worker, sem, waiters>>

\* mutant: unsubscribe leaves the queue in the set
UnsubscribeKeepsQueue(job_id, q) == UNCHANGED subscribers

\* JobStore.unsubscribe: "if not subs: return; subs.discard(q)"
\* mutant: unsubscribe looks the id up with setdefault(job_id, set())
UnsubscribeRecreates(job_id, q) ==
    IF job_id \in DOMAIN subscribers
    THEN subscribers' = [subscribers EXCEPT ![job_id] = @ \ {q}]
    ELSE subscribers' = [j \in DOMAIN subscribers \cup {job_id} |->
                            IF j = job_id THEN {} ELSE subscribers[j]]

Unsubscribe(job_id, q) ==
    IF job_id \in DOMAIN subscribers
    THEN subscribers' = [subscribers EXCEPT ![job_id] = @ \ {q}]
    ELSE UNCHANGED subscribers

\* the consumer disconnects: the generator is closed at its suspension point;
\* in the live loop the finally block unsubscribes
StreamDisconnect(s) ==
    /\ streams[s].pc \in {"replay", "live"}
    /\ IF streams[s].pc = "live"
       THEN Unsubscribe(streams[s].job, s)
       ELSE UNCHANGED subscribers
    /\ streams' = [streams EXCEPT ![s].pc = "closed"]
    /\ UNCHANGED <<now, nextId, jobs, event_history, emit_count, chan,
                   queues, putters, worker, sem, waiters>>

(***************************************************************************)
(* JobStore.wait                                                           *)
(***************************************************************************)
IdleWaiter == [pc |-> "idle", job |-> 0, ret |-> NoneStr]

\* rec = await self.get(job_id); await rec.done.wait()
WaitCall(w, job_id) ==
    /\ waiters[w].pc = "idle"
    /\ Live(job_id)
    /\ waiters' = [waiters EXCEPT ![w].pc = "waiting", ![w].job = job_id]
    /\ UNCHANGED <<now, nextId, storeVars, queues, putters, worker, sem, streams>>

\* wait on an unknown id: self.get raises KeyError
WaitUnknown(w, job_id) ==
    /\ waiters[w].pc = "idle"
    /\ NotFound(job_id)
    /\ waiters' = [waiters EXCEPT ![w].pc = "notfound", ![w].job = job_id]
    /\ UNCHANGED <<now, nextId, storeVars, queues, putters, worker, sem, streams>>

\* rec.done of the record a waiter holds; an evicted record was terminal and
\* its Event stays set
DoneSet(job_id) == Live(job_id) => jobs[job_id].done

WaitReturn(w) ==
    /\ waiters[w].pc = "waiting"
    /\ DoneSet(waiters[w].job)
    /\ waiters' = [waiters EXCEPT ![w].pc = "returned",
            ![w].ret = IF Live(waiters[w].job) THEN jobs[waiters[w].job].status
                       ELSE "evicted"]
    /\ UNCHANGED <<now, nextId, storeVars, queues, putters, worker, sem, streams>>

\* asyncio.wait_for(rec.done.wait(), timeout) raises TimeoutError
WaitTimeout(w) ==
    /\ waiters[w].pc = "waiting"
    /\ ~DoneSet(waiters[w].job)
    /\ waiters' = [waiters EXCEPT ![w].pc = "timeout"]
    /\ UNCHANGED <<now, nextId, storeVars, queues, putters, worker, sem, streams>>

(***************************************************************************)
(* The system                                                              *)
(***************************************************************************)
InitWith(tasks) ==
    /\ now = 0
    /\ nextId = 0
    /\ jobs = [j \in {} |-> 0]
    /\ subscribers = [j \in {} |-> {}]
    /\ event_history = [j \in {} |-> <<>>]
    /\ emit_count = [j \in JobIds |-> 0]
    /\ chan = [s \in Streams |-> <<>>]
    /\ queues = [l \in JobType |-> <<>>]
    /\ putters = {}
    /\ worker = [w \in tasks |-> IdleWorker]
    /\ sem = [l \in JobType |-> Permits(l)]
    /\ streams = [s \in Streams |-> IdleStream]
    /\ waiters = [w \in Waiters |-> IdleWaiter]

\* after JobStore(), ConcurrencyManager(), JobQueueManager(...).start()
Init == InitWith(Workers)

\* one step of a provider execution, up to the executor's succeed / fail
ProviderStep(w) ==
    \/ ProviderNotLoaded(w)
    \/ SdEnter(w)
    \/ TripoEnter(w)
    \/ Acquire(w)
    \/ SdStarted(w)
    \/ SdProgress(w)
    \/ TripoInference(w)
    \/ TripoStarted(w)
    \/ RunReturn(w)
    \/ RunRaise(w)
    \/ TripoDone(w)
    \/ ExecSucceed(w)
    \/ ExecFail(w)

WorkerStep(w) ==
    \/ WorkerGet(w)
    \/ ExecStart(w)
    \/ ProviderStep(w)

StreamStep(s) ==
    \/ \E j \in JobIds : StreamOpen(s, j)
    \/ StreamSnapshot(s)
    \/ StreamReplay(s)
    \/ StreamSubscribe(s)
    \/ StreamLive(s)
    \/ StreamDisconnect(s)

WaitStep(w) ==
    \/ \E j \in JobIds : WaitCall(w, j)
    \/ WaitReturn(w)
    \/ WaitTimeout(w)

Next ==
    \/ \E t \in JobType : Submit(t)
    \/ \E j \in JobIds, l \in JobType : PutResume([job |-> j, lane |-> l])
    \/ \E j \in JobIds : Cancel(j)
    \/ \E w \in Workers : WorkerStep(w)
    \/ \E w \in Workers : ExecKeyError(w)
    \/ Tick
    \/ Cleanup
    \/ \E s \in Streams : StreamStep(s)
    \/ \E s \in Streams : StreamSubscribeKeyError(s)
    \/ \E w \in Waiters : WaitStep(w)

\* the whole system
Spec == Init /\ [][Next]_vars

\* submissions, cancellation, the lane workers, the clock and the sweep
NextLife ==
    \/ \E t \in JobType : Submit(t)
    \/ \E j \in JobIds, l \in JobType : PutResume([job |-> j, lane |-> l])
    \/ \E j \in JobIds : Cancel(j)
    \/ \E w \in Workers : WorkerStep(w)
    \/ \E w \in Workers : ExecKeyError(w)
    \/ Tick
    \/ Cleanup

LifeSpec == Init /\ [][NextLife]_vars

\* submissions and the lane workers, without cancel and without the sweep
NextQueue ==
    \/ \E t \in JobType : Submit(t)
    \/ \E j \in JobIds, l \in JobType : PutResume([job |-> j, lane |-> l])
    \/ \E w \in Workers : WorkerStep(w)

QueueSpec == Init /\ [][NextQueue]_vars

\* the event loop runs every task that is ready: a lane worker that can take
\* a step takes it, and a submitter whose lane has room is resumed
QueueFairness ==
    /\ \A w \in Workers : WF_vars(WorkerStep(w))
    /\ \A j \in JobIds, l \in JobType : WF_vars(PutResume([job |-> j, lane |-> l]))

FairQueueSpec == Init /\ [][NextQueue]_vars /\ QueueFairness

\* submissions, cancel requests and the lane workers, without the sweep
NextRun ==
    \/ NextQueue
    \/ \E j \in JobIds : Cancel(j)

RunSpec == Init /\ [][NextRun]_vars

(***************************************************************************)
(* The awaits of each coroutine, in the order of the code: which of them   *)
(* take the store lock, a permit or a lane-queue slot, and which of them   *)
(* are inside a lock section.  A task carries the awaits it still has to   *)
(* pass in worker[t].job and the number of store locks it holds in         *)
(* worker[t].step; the store lock is sem[StoreLock].  The contents of the  *)
(* job table are left out of this part of the model.                       *)
(***************************************************************************)
StoreLock == "lock"         \* JobStore._lock = asyncio.Lock()

\* "async with self._lock:" around statements that do not await
LockSection == <<"lock", "unlock">>

\* JobStore.get
get_steps == LockSection

\* JobStore.emit: q.put_nowait(ev) inside the lock does not wait
emit_steps == LockSection

\* mutant: create calls emit before it leaves its lock section
create_stepsEmitInside == <<"lock">> \o emit_steps \o <<"unlock">>

\* JobStore.create: the lock section, then emit outside of it
create_steps == LockSection \o emit_steps

\* JobStore.set_running / set_progress / succeed / fail: get, assignments, emit
update_steps == get_steps \o emit_steps

\* JobStore.cancel of a queued job, then store.get (routes_jobs.py cancel_job)
cancel_steps == get_steps \o emit_steps \o get_steps

\* JobStore.cleanup_expired
cleanup_steps == LockSection

\* create_triposr_job: store.create, then queue.enqueue
submit_steps == create_steps \o <<"put">>

\* LocalTripoSRProvider.execute: progress, async with triposr: progress,
\* started, svc.run; then progress
triposr_steps ==
    update_steps \o <<"permit">> \o update_steps \o update_steps
        \o <<"run", "release">> \o update_steps

\* execute_triposr: fetch the job from the store, run the provider, then
\* store.succeed
executor_steps == get_steps \o triposr_steps \o update_steps

\* _triposr_worker_loop: queue.get, then the executor
worker_steps == <<"get">> \o executor_steps

\* what a request handler may run
CallerSteps == {submit_steps, cancel_steps, get_steps, cleanup_steps}

LockCallers == {"caller"} \X (1..NumCallers)
LaneTask == <<"triposr", 1>>
LockTasks == LockCallers \cup {LaneTask}

\* the awaits at which a task can be suspended
WaitSteps == {"lock", "permit", "put", "get", "run"}

NextStep(t) == IF worker[t].job = <<>> THEN "none" ELSE Head(worker[t].job)

HoldsLock(t) == worker[t].step > 0

Advance(t, held) ==
    worker' = [worker EXCEPT ![t].job = Tail(@), ![t].step = held]

\* a request arrives and its handler starts
CallerBegin(t, steps) ==
    /\ t \in LockCallers
    /\ worker[t].job = <<>>
    /\ worker' = [worker EXCEPT ![t].job = steps]
    /\ UNCHANGED <<now, nextId, storeVars, queues, putters, sem, streams, waiters>>

\* "while True:" of the lane worker
WorkerBegin(t) ==
    /\ t = LaneTask
    /\ worker[t].job = <<>>
    /\ worker' = [worker EXCEPT ![t].job = worker_steps]
    /\ UNCHANGED <<now, nextId, storeVars, queues, putters, sem, streams, waiters>>

\* asyncio.Lock.acquire: proceeds when the lock is free, waits otherwise
TaskLock(t) ==
    /\ NextStep(t) = "lock"
    /\ sem[StoreLock] > 0
    /\ sem' = [sem EXCEPT ![StoreLock] = @ - 1]
    /\ Advance(t, worker[t].step + 1)
    /\ UNCHANGED <<now, nextId, storeVars, queues, putters, streams, waiters>>

\* leaving "async with self._lock"
TaskUnlock(t) ==
    /\ NextStep(t) = "unlock"
    /\ sem' = [sem EXCEPT ![StoreLock] = Release(@)]
    /\ Advance(t, worker[t].step - 1)
    /\ UNCHANGED <<now, nextId, storeVars, queues, putters, streams, waiters>>

\* "async with self.deps.concurrency.triposr"
TaskPermit(t) ==
    /\ NextStep(t) = "permit"
    /\ CanAcquire(sem["triposr"])
    /\ sem' = [sem EXCEPT !["triposr"] = @ - 1]
    /\ Advance(t, worker[t].step)
    /\ UNCHANGED <<now, nextId, storeVars, queues, putters, streams, waiters>>

\* await self.svc.run(...) returns
TaskRun(t) ==
    /\ NextStep(t) = "run"
    /\ Advance(t, worker[t].step)
    /\ UNCHANGED <<now, nextId, storeVars, queues, putters, sem, streams, waiters>>

\* leaving "async with self.deps.concurrency.triposr"
TaskRelease(t) ==
    /\ NextStep(t) = "release"
    /\ sem' = [sem EXCEPT !["triposr"] = Release(@)]
    /\ Advance(t, worker[t].step)
    /\ UNCHANGED <<now, nextId, storeVars, queues, putters, streams, waiters>>

\* await self._triposr_queue.put(job_id): waits while the lane is full
TaskPut(t) ==
    /\ NextStep(t) = "put"
    /\ ~Full("triposr")
    /\ queues' = [queues EXCEPT !["triposr"] = Append(@, 1)]
    /\ Advance(t, worker[t].step)
    /\ UNCHANGED <<now, nextId, storeVars, putters, sem, streams, waiters>>

\* await self._triposr_queue.get(): waits while the lane is empty
TaskGet(t) ==
    /\ NextStep(t) = "get"
    /\ queues["triposr"] # <<>>
    /\ queues' = [queues EXCEPT !["triposr"] = Tail(@)]
    /\ Advance(t, worker[t].step)
    /\ UNCHANGED <<now, nextId, storeVars, putters, sem, streams, waiters>>

TaskStep(t) ==
    \/ TaskLock(t)
    \/ TaskUnlock(t)
    \/ TaskPermit(t)
    \/ TaskRun(t)
    \/ TaskRelease(t)
    \/ TaskPut(t)
    \/ TaskGet(t)

InitLock ==
    /\ now = 0
    /\ nextId = 0
    /\ jobs = [j \in {} |-> 0]
    /\ subscribers = [j \in {} |-> {}]
    /\ event_history = [j \in {} |-> <<>>]
    /\ emit_count = [j \in JobIds |-> 0]
    /\ chan = [s \in Streams |-> <<>>]
    /\ queues = [l \in JobType |-> <<>>]
    /\ putters = {}
    /\ worker = [t \in LockTasks |-> [IdleWorker EXCEPT !.job = <<>>]]
    /\ sem = [l \in JobType \cup {StoreLock} |->
                IF l = StoreLock THEN 1 ELSE Permits(l)]
    /\ streams = [s \in Streams |-> IdleStream]
    /\ waiters = [w \in Waiters |-> IdleWaiter]

NextLock ==
    \/ \E t \in LockCallers, steps \in CallerSteps : CallerBegin(t, steps)
    \/ WorkerBegin(LaneTask)
    \/ \E t \in LockTasks : TaskStep(t)

\* asyncio.Lock, asyncio.Semaphore and asyncio.Queue wake their waiters in
\* the order in which they started to wait, so a task that can be resumed
\* again and again is resumed; the worker loop restarts at once
LockFairness ==
    /\ \A t \in LockTasks : SF_vars(TaskStep(t))
    /\ WF_vars(WorkerBegin(LaneTask))

LockSpec == InitLock /\ [][NextLock]_vars /\ LockFairness

\* StreamJobs submissions with streams and waiters, inside the TTL
NextStream ==
    \/ \E t \in JobType : nextId < StreamJobs /\ Submit(t)
    \/ \E j \in JobIds : Cancel(j)
    \/ \E w \in Workers : WorkerStep(w)
    \/ \E s \in Streams : StreamStep(s)
    \/ \E w \in Waiters : WaitStep(w)

StreamSpec == Init /\ [][NextStream]_vars

\* provider.execute called directly by NumExecs concurrent callers per class,
\* each for a job it has just created
ProviderCall(e) ==
    /\ At(e, "get")
    /\ nextId < MaxJobs
    /\ nextId' = nextId + 1
    /\ Create(nextId + 1, Lane(e))
    /\ worker' = [worker EXCEPT ![e] = [IdleWorker EXCEPT !.pc = "provider",
                                                          !.job = nextId + 1]]
    /\ UNCHANGED <<now, queues, putters, sem, streams, waiters>>

NextProvider ==
    \/ \E e \in Execs : ProviderCall(e)
    \/ \E e \in Execs : ProviderStep(e)

ProviderSpec == InitWith(Execs) /\ [][NextProvider]_vars

(***************************************************************************)
(* JobStore under direct callers: any task may call the public methods of  *)
(* the store in any order.  A call on an unknown or evicted id raises      *)
(* KeyError in the leading self.get and changes nothing.                   *)
(***************************************************************************)
CallCreateUpTo(limit) ==
    /\ nextId < limit
    /\ nextId' = nextId + 1
    /\ Create(nextId + 1, "img2img")
    /\ UNCHANGED <<now, queues, putters, worker, sem, streams, waiters>>

CallCreate == CallCreateUpTo(StreamJobs)

CallSetRunning(job_id) ==
    /\ Live(job_id)
    /\ emit_count[job_id] < MaxEmits
    /\ set_running(job_id)
    /\ UNCHANGED <<now, nextId, queues, putters, worker, sem, streams, waiters>>

CallSetProgress(job_id, current) ==
    /\ Live(job_id)
    /\ emit_count[job_id] < MaxEmits
    /\ set_progress(job_id, current, TotalSteps, "denoise")
    /\ UNCHANGED <<now, nextId, queues, putters, worker, sem, streams, waiters>>

CallSucceed(job_id) ==
    /\ Live(job_id)
    /\ emit_count[job_id] < MaxEmits
    /\ succeed(job_id, "result")
    /\ UNCHANGED <<now, nextId, queues, putters, worker, sem, streams, waiters>>

CallFail(job_id) ==
    /\ Live(job_id)
    /\ emit_count[job_id] < MaxEmits
    /\ fail(job_id, "error")
    /\ UNCHANGED <<now, nextId, queues, putters, worker, sem, streams, waiters>>

\* the values of current and total that callers of set_progress pass
ProgressArgs == 0..(TotalSteps + 1)

\* set_progress with any current, total and stage
CallSetProgressWith(job_id, current, total, stage) ==
    /\ Live(job_id)
    /\ emit_count[job_id] < MaxEvents
    /\ set_progress(job_id, current, total, stage)
    /\ UNCHANGED <<now, nextId, queues, putters, worker, sem, streams, waiters>>

\* a task calls store.subscribe(job_id) and then reads its queue
SubscribeCall(s, job_id) ==
    /\ streams[s].pc = "idle"
    /\ Live(job_id)
    /\ Subscribe(job_id, s)
    /\ streams' = [streams EXCEPT ![s].pc = "live", ![s].job = job_id,
                                  ![s].snap_n = emit_count[job_id]]
    /\ UNCHANGED <<now, nextId, queues, putters, worker, sem, waiters>>

\* a call on an existing job
JobCall(job_id) ==
    \/ CallSetRunning(job_id)
    \/ \E c \in 1..TotalSteps : CallSetProgress(job_id, c)
    \/ CallSucceed(job_id)
    \/ CallFail(job_id)
    \/ Cancel(job_id)

StoreCall ==
    \/ CallCreate
    \/ \E j \in JobIds : JobCall(j)

SubscriberStep(s) ==
    \/ \E j \in JobIds : SubscribeCall(s, j)
    \/ StreamLive(s)
    \/ StreamDisconnect(s)

\* the store after one create call, with the tasks subs that may subscribe
InitOneJob(subs) ==
    /\ now = 0
    /\ nextId = 1
    /\ jobs = [j \in {1} |-> JobRecord("img2img")]
    /\ subscribers = [j \in {1} |-> {}]
    /\ event_history = [j \in {1} |->
            <<[event |-> "queued", data |-> [status |-> "queued"], n |-> 1]>>]
    /\ emit_count = [j \in JobIds |-> IF j = 1 THEN 1 ELSE 0]
    /\ chan = [s \in subs |-> <<>>]
    /\ queues = [l \in JobType |-> <<>>]
    /\ putters = {}
    /\ worker = [w \in Workers |-> IdleWorker]
    /\ sem = [l \in JobType |-> Permits(l)]
    /\ streams = [s \in subs |-> IdleStream]
    /\ waiters = [w \in Waiters |-> IdleWaiter]

\* one job under every order of store calls, the clock and the sweep
NextStore ==
    \/ \E j \in JobIds : JobCall(j)
    \/ Tick
    \/ Cleanup

StoreSpec == InitOneJob(Streams) /\ [][NextStore]_vars

\* a store call that leaves at most MaxEvents events emitted per job
ShortStoreCall == StoreCall /\ \A j \in JobIds : emit_count'[j] <= MaxEvents

\* the calls that take a job through its life in order, MaxEvents events at
\* most: started, progress, then completed or failed, with cancel at any time
LifecycleCall(job_id) ==
    /\ Live(job_id)
    /\ \/ jobs[job_id].status = "queued" /\ CallSetRunning(job_id)
       \/ jobs[job_id].status = "running"
            /\ \E c \in 1..TotalSteps : CallSetProgress(job_id, c)
       \/ jobs[job_id].status = "running" /\ CallSucceed(job_id)
       \/ jobs[job_id].status = "running" /\ CallFail(job_id)
       \/ Cancel(job_id)
    /\ emit_count'[job_id] <= MaxEvents

\* one job with NumSubscribers subscribers
NextFanout ==
    \/ \E j \in JobIds : LifecycleCall(j)
    \/ \E s \in Subscribers : SubscriberStep(s)

FanoutSpec == InitOneJob(Subscribers) /\ [][NextFanout]_vars

\* one job with a subscriber and a caller of wait
NextCancel ==
    \/ \E j \in JobIds : LifecycleCall(j)
    \/ \E s \in Streams : SubscriberStep(s)
    \/ \E w \in Waiters : WaitStep(w)

CancelSpec == InitOneJob(Streams) /\ [][NextCancel]_vars

\* routes_jobs.py: the status of the response of get_job / job_events /
\* cancel_job
Response(job_id) == IF NotFound(job_id) THEN 404 ELSE 200

\* get_job: store.get changes nothing, whether it returns or raises
GetJob(job_id) == UNCHANGED vars

\* cancel_job on an unknown id: store.cancel raises KeyError in its self.get
CancelUnknown(job_id) ==
    /\ NotFound(job_id)
    /\ UNCHANGED vars

\* one job through its life and its eviction, with streams, callers of wait
\* and requests on ids that are unknown or evicted
NextEvict ==
    \/ \E j \in JobIds : LifecycleCall(j)
    \/ Tick
    \/ Cleanup
    \/ \E s \in OneStream : StreamStep(s)
    \/ \E s \in OneStream : StreamSubscribeKeyError(s)
    \/ \E s \in OneStream, j \in JobIds : StreamOpenUnknown(s, j)
    \/ \E w \in OneWaiter : WaitStep(w)
    \/ \E w \in OneWaiter, j \in JobIds : WaitUnknown(w, j)
    \/ \E j \in JobIds : GetJob(j)
    \/ \E j \in JobIds : CancelUnknown(j)

EvictSpec == InitOneJob(OneStream) /\ [][NextEvict]_vars

\* the store after one create call, with the periodic cleanup task started
InitPeriodic ==
    /\ now = 0
    /\ nextId = 1
    /\ jobs = [j \in {1} |-> JobRecord("img2img")]
    /\ subscribers = [j \in {1} |-> {}]
    /\ event_history = [j \in {1} |->
            <<[event |-> "queued", data |-> [status |-> "queued"], n |-> 1]>>]
    /\ emit_count = [j \in JobIds |-> IF j = 1 THEN 1 ELSE 0]
    /\ chan = [s \in Streams |-> <<>>]
    /\ queues = [l \in JobType |-> <<>>]
    /\ putters = {}
    /\ worker = [w \in Workers \cup {CleanupTask} |->
                    IF w = CleanupTask THEN [IdleWorker EXCEPT !.pc = "sweep"]
                    ELSE IdleWorker]
    /\ sem = [l \in JobType |-> Permits(l)]
    /\ streams = [s \in Streams |-> IdleStream]
    /\ waiters = [w \in Waiters |-> IdleWaiter]

\* one job through its life, the clock and the periodic cleanup task
NextPeriodic ==
    \/ \E j \in JobIds : LifecycleCall(j)
    \/ Tick
    \/ SweepRun(CleanupTask)
    \/ SweepRaise(CleanupTask)
    \/ SweepWake(CleanupTask)

PeriodicSpec == InitPeriodic /\ [][NextPeriodic]_vars

\* the message of create_img2img_job / create_triposr_job for a submission
\* whose enqueue raised
QueueFullMessage == "Queue is full. Try again shortly."

\* the strings callers pass to fail
FailMessages == {QueueFullMessage, "inference failed"}

\* fail with any message
CallFailWith(job_id, message) ==
    /\ Live(job_id)
    /\ emit_count[job_id] < MaxEmits
    /\ fail(job_id, message)
    /\ UNCHANGED <<now, nextId, queues, putters, worker, sem, streams, waiters>>

\* one job that callers start, end and cancel in any order, failing it with
\* any message, with a subscriber
FailCall(job_id) ==
    /\ \/ \E m \in FailMessages : CallFailWith(job_id, m)
       \/ CallSetRunning(job_id)
       \/ CallSucceed(job_id)
       \/ Cancel(job_id)
    /\ emit_count'[job_id] <= MaxEvents

NextFail ==
    \/ \E j \in JobIds : FailCall(j)
    \/ \E s \in Streams : SubscriberStep(s)

FailSpec == InitOneJob(Streams) /\ [][NextFail]_vars

ProgressStages == {"", "denoise"}

\* one job whose progress is set to any values, with a subscriber
NextProgress ==
    \/ \E j \in JobIds, c \in ProgressArgs, t \in ProgressArgs, g \in ProgressStages :
            CallSetProgressWith(j, c, t, g)
    \/ \E s \in OneStream : SubscriberStep(s)

ProgressSpec == InitOneJob(OneStream) /\ [][NextProgress]_vars

\* a caller ends a job that has not ended
EndCall(job_id) ==
    /\ Live(job_id)
    /\ jobs[job_id].status \notin Terminal
    /\ \/ CallSucceed(job_id)
       \/ Cancel(job_id)

\* MaxJobs jobs that are created and ended at different times, the clock,
\* the sweep and a subscriber
NextSweep ==
    \/ CallCreateUpTo(MaxJobs)
    \/ \E j \in JobIds : EndCall(j)
    \/ Tick
    \/ Cleanup
    \/ \E s \in Streams : SubscriberStep(s)

SweepSpec == Init /\ [][NextSweep]_vars

\* the store with callers of wait
NextWait ==
    \/ ShortStoreCall
    \/ \E w \in Waiters : WaitStep(w)

WaitSpec == Init /\ [][NextWait]_vars

(***************************************************************************)
(* Properties                                                              *)
(***************************************************************************)
AllowedEdges ==
    {<<"queued", "running">>, <<"running", "succeeded">>,
     <<"running", "failed">>, <<"queued", "cancelled">>}

Busy(w) == worker[w].pc \notin {"get", "dead"}

\* C1: every change of a job's status is one of queued->running,
\* running->succeeded, running->failed, queued->cancelled.
\* Violated: set_running / succeed / fail assign the status without looking at
\* the current one, so a job cancelled in its lane queue becomes running when
\* the worker reaches it.
C1_OnlyAllowedEdges ==
    [][\A j \in DOMAIN jobs \cap DOMAIN jobs' :
          jobs[j].status # jobs'[j].status
              => <<jobs[j].status, jobs'[j].status>> \in AllowedEdges]_vars

\* C2: a submission that finds its lane full is not suspended in enqueue, and
\* its job ends failed.
\* Violated: the submitter is suspended in asyncio.Queue.put and the job
\* stays queued.
C2_FullLaneFailsFast ==
    \A j \in JobIds :
        (\E p \in putters : p.job = j) => (Live(j) /\ jobs[j].status = "failed")

\* C3: no worker loop ever terminates, whatever the executor raises.
\* Violated: the KeyError of a job evicted while it waited in the lane queue
\* leaves the executor and ends the loop.
C3_WorkerLoopSurvives == \A w \in DOMAIN worker : worker[w].pc # "dead"

\* the job ids that wait in the lane of w (in the queue or in a suspended put)
Waiting(lane) ==
    {queues[lane][i] : i \in 1..Len(queues[lane])}
        \cup {p.job : p \in {q \in putters : q.lane = lane}}

\* C4 as stated: while a worker executes a job, every job waiting in the
\* same lane has status queued.
\* Violated: a caller cancels the waiting job, which becomes cancelled.
C4_WaitingJobStaysQueued ==
    \A w \in DOMAIN worker :
        Busy(w) => \A a \in Waiting(Lane(w)) :
                        Live(a) => jobs[a].status = "queued"

C4_Inv ==
    /\ \A j \in DOMAIN jobs :
          jobs[j].status = "running"
              => \E w \in DOMAIN worker : Busy(w) /\ worker[w].job = j
    /\ \A l \in JobType : \A a \in Waiting(l) :
          Live(a) => /\ jobs[a].status \in {"queued", "cancelled"}
                     /\ jobs[a].started_at = None

C4_Step ==
    \A w \in DOMAIN worker :
        /\ (Busy(w) /\ worker'[w].pc = "get")
              => /\ worker[w].job \in DOMAIN jobs'
                 /\ jobs'[worker[w].job].status \in Terminal
        /\ (worker'[w].pc = "exec" /\ worker[w].pc # "exec")
              => worker[w].pc = "get"

\* C4 (amended): a job is running only while it is the one job its lane
\* worker executes; a job waiting in a lane has never been started and is
\* queued, or cancelled when a caller cancelled it; a worker takes the next
\* job id only from its idle position, and an executor invocation that
\* returns leaves its job terminal.
C4_SingleFlight == []C4_Inv /\ [][C4_Step]_vars

\* a second job of a lane runs after the first one of the lane succeeded
C4_Witness ==
    /\ {1, 2} \subseteq DOMAIN jobs
    /\ jobs[1].type = jobs[2].type
    /\ jobs[1].status = "succeeded"
    /\ jobs[2].status = "running"

InsideCS(cls) == {e \in DOMAIN worker : Lane(e) = cls /\ worker[e].pc \in InCS}

\* C5: for each resource class the number of executions inside its critical
\* section is at most the class's permit count.
C5_PermitBound ==
    \A cls \in JobType : Cardinality(InsideCS(cls)) <= Permits(cls)

\* one execution is inside the critical section while another one of the
\* same class waits for the permit
C5_Witness ==
    \E e1, e2 \in DOMAIN worker :
        /\ e1 # e2
        /\ Lane(e1) = Lane(e2)
        /\ worker[e1].pc \in InCS
        /\ worker[e2].pc = "acquire"

Serials(seq) == {seq[i].n : i \in 1..Len(seq)}

TerminalDelivered(s) ==
    \E i \in 1..Len(streams[s].delivered) :
        streams[s].delivered[i].event \in TerminalEvents

\* C6: a stream that has reached its live part has delivered, or holds in its
\* queue, every event emitted for the job after its history snapshot.
\* Violated: an event emitted after the snapshot and before subscribe reaches
\* neither the snapshot nor the queue.
C6_NoEventLost ==
    \A s \in Streams :
        streams[s].pc = "live"
            => \A n \in (streams[s].snap_n + 1)..emit_count[streams[s].job] :
                    n \in Serials(streams[s].delivered) \cup Serials(chan[s])

\* C7: no emitted event is delivered twice by one stream.
C7_NoDuplicate ==
    \A s \in Streams :
        \A i, k \in 1..Len(streams[s].delivered) :
            i # k => streams[s].delivered[i].n # streams[s].delivered[k].n

\* a stream has delivered its whole snapshot and live events after it
C7_Witness ==
    \E s \in Streams :
        /\ streams[s].pc = "live"
        /\ Len(streams[s].snap) >= 2
        /\ Len(streams[s].delivered) > Len(streams[s].snap)

Ascending(seq) == \A i \in 1..(Len(seq) - 1) : seq[i].n < seq[i + 1].n

\* C8: a stream delivers the snapshot of the history first, oldest to
\* newest, and only then live events, in the order of their emission.
C8_HistoryThenLiveInOrder ==
    \A s \in Streams :
        LET st == streams[s]
        IN  /\ st.pos <= Len(st.delivered)
            /\ SubSeq(st.delivered, 1, st.pos) = SubSeq(st.snap, 1, st.pos)
            /\ Len(st.delivered) > st.pos
                  => st.pos = Len(st.snap) /\ st.pc \in {"live", "closed"}
            /\ Ascending(st.delivered)
            /\ Ascending(chan[s])

\* a stream has delivered two live events after a snapshot of two events
C8_Witness ==
    \E s \in Streams :
        /\ Len(streams[s].snap) >= 2
        /\ Len(streams[s].delivered) >= Len(streams[s].snap) + 2

\* C9: once a stream has delivered a terminal event, the only step it takes
\* is to close, with its queue removed from the subscriber set.
\* Violated: after replaying the terminal event of a finished job the
\* generator subscribes and waits on its queue; nothing in the live loop
\* looks at the event kind.
C9_ClosesOnTerminal ==
    [][\A s \in Streams :
          (TerminalDelivered(s) /\ streams'[s] # streams[s])
              => /\ streams'[s].pc = "closed"
                 /\ \A j \in DOMAIN subscribers' : s \notin subscribers'[j]]_vars

\* C10: cancel on a queued job sets cancel_requested, makes the job
\* cancelled with ended_at recorded, appends a cancelled event to the history
\* and to every subscriber's queue, and sets done, which releases the waiters.
C10_CancelQueued ==
    [][\A j \in JobIds :
          (Live(j) /\ jobs[j].status = "queued" /\ Cancel(j))
              => LET ev == [event |-> "cancelled",
                            data |-> [status |-> "cancelled"],
                            n |-> emit_count[j] + 1]
                 IN  /\ jobs'[j].cancel_requested
                     /\ jobs'[j].status = "cancelled"
                     /\ jobs'[j].ended_at = now
                     /\ jobs'[j].done
                     /\ Len(event_history'[j]) > 0
                     /\ event_history'[j][Len(event_history'[j])] = ev
                     /\ \A q \in subscribers[j] : chan'[q] = Append(chan[q], ev)
                     /\ \A w \in Waiters :
                            (waiters[w].pc = "waiting" /\ waiters[w].job = j)
                                => DoneSet(j)']_vars

\* a waiter of a cancelled job has returned and a subscriber has received the
\* cancelled event from its queue
C10_Witness ==
    /\ \E w \in Waiters : waiters[w].ret = "cancelled"
    /\ \E s \in Streams :
          /\ Len(streams[s].delivered) > Len(streams[s].snap)
          /\ streams[s].delivered[Len(streams[s].delivered)].event = "cancelled"

\* C11: cancel on a running job only sets cancel_requested: the rest of the
\* record (status, timestamps, result, error, done), the histories, the
\* subscriber queues and the subscriber sets are unchanged, so no event is
\* emitted and no waiter is released.
C11_CancelRunningOnlyFlags ==
    [][\A j \in JobIds :
          (Live(j) /\ jobs[j].status = "running" /\ Cancel(j))
              => /\ jobs' = [jobs EXCEPT ![j].cancel_requested = TRUE]
                 /\ event_history' = event_history
                 /\ emit_count' = emit_count
                 /\ chan' = chan
                 /\ subscribers' = subscribers
                 /\ \A w \in Waiters :
                        (waiters[w].pc = "waiting" /\ waiters[w].job = j)
                            => (DoneSet(j)' = DoneSet(j))]_vars

\* a running job has been asked to cancel while a caller waits for it and a
\* stream is subscribed to it: the caller still waits
C11_Witness ==
    \E j \in DOMAIN jobs :
        /\ jobs[j].status = "running"
        /\ jobs[j].cancel_requested
        /\ ~jobs[j].done
        /\ \E w \in Waiters : waiters[w].pc = "waiting" /\ waiters[w].job = j
        /\ \E s \in Streams : streams[s].pc = "live" /\ streams[s].job = j

\* C12: succeed or fail called on a job that is already terminal leaves the
\* status, ended_at, result and error as they are and adds no event to the
\* history or to a subscriber queue.
\* Violated: both methods assign the fields and emit without looking at the
\* current status.
C12_FirstTerminalCallWins ==
    [][\A j \in JobIds :
          (/\ Live(j)
           /\ jobs[j].status \in Terminal
           /\ (CallSucceed(j) \/ CallFail(j)))
              => /\ jobs'[j].status = jobs[j].status
                 /\ jobs'[j].ended_at = jobs[j].ended_at
                 /\ jobs'[j].result = jobs[j].result
                 /\ jobs'[j].error = jobs[j].error
                 /\ event_history'[j] = event_history[j]
                 /\ chan' = chan]_vars

\* C13: set_running called on a job that is not queued leaves the status as
\* it is and does not overwrite a started_at that is set.
\* Violated: set_running assigns status and started_at unconditionally.
C13_SetRunningGuarded ==
    [][\A j \in JobIds :
          (Live(j) /\ jobs[j].status # "queued" /\ CallSetRunning(j))
              => /\ jobs'[j].status = jobs[j].status
                 /\ jobs[j].started_at # None
                        => jobs'[j].started_at = jobs[j].started_at]_vars

\* C14: a terminal event held in the history of a job stays in the history
\* for as long as the job is not evicted.
\* Violated: emit drops the oldest events whatever their kind.
C14_TerminalEventRetained ==
    [][\A j \in DOMAIN event_history \cap DOMAIN event_history' :
          \A i \in 1..Len(event_history[j]) :
              event_history[j][i].event \in TerminalEvents
                  => \E k \in 1..Len(event_history'[j]) :
                        event_history'[j][k] = event_history[j][i]]_vars

\* C15: the history of a job holds at most MaxEvents events, and they are the
\* last min(MaxEvents, k) of the k events emitted for the job, in emission
\* order.
C15_HistoryIsLastN ==
    \A j \in DOMAIN event_history :
        LET h == event_history[j]
            k == emit_count[j]
        IN  /\ Len(h) <= MaxEvents
            /\ Len(h) = IF k < MaxEvents THEN k ELSE MaxEvents
            /\ \A i \in 1..Len(h) : h[i].n = k - Len(h) + i

\* more events than the cap have been emitted for a job
C15_Witness ==
    \E j \in DOMAIN event_history :
        /\ emit_count[j] >= MaxEvents + 2
        /\ Len(event_history[j]) = MaxEvents

\* what a subscriber has been handed: the events it took and the ones pending
Received(s) == streams[s].delivered \o chan[s]

\* C16: a registered subscriber has been handed exactly the events emitted
\* for its job after it subscribed, once each and in emission order; what two
\* subscribers of a job were both handed is identical.
C16_OwnCopyInOrder ==
    /\ \A s \in DOMAIN streams :
          streams[s].pc = "live"
              => /\ Len(Received(s)) = emit_count[streams[s].job] - streams[s].snap_n
                 /\ \A i \in 1..Len(Received(s)) :
                        Received(s)[i].n = streams[s].snap_n + i
    /\ \A s1, s2 \in DOMAIN streams :
          (/\ streams[s1].pc = "live"
           /\ streams[s2].pc = "live"
           /\ streams[s1].job = streams[s2].job)
              => \A i \in 1..Len(Received(s1)), k \in 1..Len(Received(s2)) :
                    Received(s1)[i].n = Received(s2)[k].n
                        => Received(s1)[i] = Received(s2)[k]

\* two subscribers joined a job at different times and both took events
C16_Witness ==
    \E s1, s2 \in DOMAIN streams :
        /\ streams[s1].pc = "live"
        /\ streams[s2].pc = "live"
        /\ streams[s1].job = streams[s2].job
        /\ streams[s1].snap_n < streams[s2].snap_n
        /\ Len(streams[s1].delivered) >= 2
        /\ Len(streams[s2].delivered) >= 1

\* C17: an emitting store call is enabled whatever the subscribers have
\* pending, and the step that emits an event appends it to the queue of every
\* subscriber of the job, however many events that queue already holds.
C17_EmitNeverWaits ==
    /\ [](\A j \in DOMAIN jobs : ENABLED CallSetProgress(j, 1))
    /\ [][\A j \in DOMAIN jobs \cap DOMAIN jobs' :
             emit_count'[j] = emit_count[j] + 1
                 => \A q \in subscribers[j] :
                       chan'[q] = Append(chan[q],
                                    event_history'[j][Len(event_history'[j])])]_vars

\* one subscriber has two events pending that another subscriber of the job
\* has already taken
C17_Witness ==
    \E s1, s2 \in DOMAIN streams :
        /\ streams[s1].pc = "live"
        /\ streams[s2].pc = "live"
        /\ streams[s1].job = streams[s2].job
        /\ Len(chan[s1]) >= 2
        /\ chan[s2] = <<>>
        /\ Len(streams[s2].delivered) >= 2

\* C18: a job that leaves the store was terminal.
C18_NeverEvictsLive ==
    [][\A j \in DOMAIN jobs \ DOMAIN jobs' : jobs[j].status \in Terminal]_vars

\* the sweep has nothing to remove although the ended_at of a job that runs
\* again is older than the TTL
C18_Witness ==
    \E j \in DOMAIN jobs :
        /\ jobs[j].status \in {"queued", "running"}
        /\ jobs[j].ended_at # None
        /\ now - jobs[j].ended_at > TTL

\* C19: a run of cleanup_expired removes the record, the history and the
\* subscriber set of every terminal job older than the TTL, keeps those of
\* every other terminal job, and returns the number of jobs removed.
C19_SweepByAge ==
    [][Cleanup =>
          /\ \A j \in DOMAIN jobs :
                jobs[j].status \in Terminal
                    => IF now - jobs[j].ended_at > TTL
                       THEN /\ j \notin DOMAIN jobs'
                            /\ j \notin DOMAIN subscribers'
                            /\ j \notin DOMAIN event_history'
                       ELSE /\ j \in DOMAIN jobs' /\ jobs'[j] = jobs[j]
                            /\ j \in DOMAIN subscribers'
                            /\ subscribers'[j] = subscribers[j]
                            /\ j \in DOMAIN event_history'
                            /\ event_history'[j] = event_history[j]
          /\ cleanup_count = Cardinality(DOMAIN jobs) - Cardinality(DOMAIN jobs')]_vars

\* a job has been evicted together with the subscriber set that held a
\* subscriber, while a terminal job whose age equals the TTL is kept
C19_Witness ==
    \E j, k \in 1..nextId :
        /\ j \notin DOMAIN jobs
        /\ j \notin DOMAIN subscribers
        /\ j \notin DOMAIN event_history
        /\ \E s \in Streams : streams[s].pc = "live" /\ streams[s].job = j
        /\ k \in DOMAIN jobs
        /\ jobs[k].status \in Terminal
        /\ now - jobs[k].ended_at = TTL

\* C20: a job returned by wait has a terminal status.
\* Violated: done stays set when set_running puts a terminal job back to
\* running, so wait returns a job that is running.
C20_WaitReturnsTerminal ==
    \A w \in Waiters :
        waiters[w].pc = "returned" => waiters[w].ret \in Terminal

\* C21: the permits of a resource class that are not held by an execution
\* inside its critical section are available: every execution that has left
\* the section, by returning or by raising, has given its permit back.
C21_PermitRestored ==
    \A cls \in JobType :
        sem[cls] = Permits(cls) - Cardinality(InsideCS(cls))

\* after an execution of a class raised inside the critical section, a later
\* execution of the class is inside it
C21_Witness ==
    \E e1, e2 \in DOMAIN worker :
        /\ Lane(e1) = Lane(e2)
        /\ worker[e1].pc = "fail"
        /\ worker[e1].err = "inference failed"
        /\ worker[e2].pc \in InCS

\* C22: a request on an id that is not in the job table is answered with
\* NotFound (KeyError, HTTP 404) and leaves the job table, the histories and
\* the subscriber sets as they are: get and cancel, opening a stream,
\* the subscribe of a stream whose job was evicted during the replay, and wait.
C22_UnknownIdNotFound ==
    [][\A j \in JobIds :
          NotFound(j)
              => /\ (GetJob(j) \/ CancelUnknown(j))
                        => Response(j) = 404 /\ UNCHANGED storeVars
                 /\ \A s \in OneStream :
                        (\/ StreamOpenUnknown(s, j)
                         \/ streams[s].job = j /\ StreamSubscribeKeyError(s))
                            => /\ streams'[s].pc = "notfound"
                               /\ jobs' = jobs
                               /\ subscribers' = subscribers
                               /\ event_history' = event_history
                 /\ \A w \in OneWaiter :
                        WaitUnknown(w, j)
                            => /\ waiters'[w].pc = "notfound"
                               /\ UNCHANGED storeVars]_vars

\* a stream that replayed the history of a job met NotFound at its
\* subscribe because the job had been evicted meanwhile, and a wait on the
\* evicted id was refused
C22_Witness ==
    /\ \E s \in OneStream :
          /\ streams[s].pc = "notfound"
          /\ streams[s].pos >= 1
          /\ NotFound(streams[s].job)
    /\ \E w \in OneWaiter : waiters[w].pc = "notfound" /\ waiters[w].job = 1

\* C30: a stream that has ended holds no registration: its queue is in no
\* subscriber set; a disconnect in the live part removes the queue from the
\* set of its job, and when the job has been evicted it changes nothing in
\* the store.
C30_ClosedStreamUnregistered ==
    /\ [](\A s \in OneStream :
             streams[s].pc \in {"closed", "notfound"}
                 => \A j \in DOMAIN subscribers : s \notin subscribers[j])
    /\ [][\A s \in OneStream :
             (streams[s].pc = "live" /\ StreamDisconnect(s))
                 => IF NotFound(streams[s].job)
                    THEN UNCHANGED storeVars
                    ELSE /\ s \in subscribers[streams[s].job]
                         /\ subscribers' = [subscribers EXCEPT
                                ![streams[s].job] = @ \ {s}]]_vars

\* a stream was closed in its live part after it had delivered a live event,
\* and its job is still in the store
C30_Witness ==
    \E s \in OneStream :
        /\ streams[s].pc = "closed"
        /\ Len(streams[s].delivered) > Len(streams[s].snap)
        /\ streams[s].job \in DOMAIN subscribers

\* C23: a create call enters a job under an identifier that no live or
\* earlier job has, with status queued, no start or end time, no result or
\* error, cancel_requested false and an empty subscriber set; its history is
\* the one queued event, and the other jobs are untouched.
C23_CreateFreshQueued ==
    [][nextId' # nextId =>
          LET j == nextId'
          IN  /\ j \notin DOMAIN jobs
              /\ \A i \in DOMAIN jobs : i # j /\ i \in DOMAIN jobs' /\ jobs'[i] = jobs[i]
              /\ DOMAIN jobs' = DOMAIN jobs \cup {j}
              /\ jobs'[j].status = "queued"
              /\ jobs'[j].started_at = None
              /\ jobs'[j].ended_at = None
              /\ jobs'[j].result = NoneStr
              /\ jobs'[j].error = NoneStr
              /\ ~jobs'[j].cancel_requested
              /\ ~jobs'[j].done
              /\ subscribers'[j] = {}
              /\ Len(event_history'[j]) = 1
              /\ event_history'[j][1].event = "queued"
              /\ event_history'[j][1].data = [status |-> "queued"]]_vars

\* a job has been created after an earlier job was evicted
C23_Witness ==
    /\ nextId >= 2
    /\ 1 \notin DOMAIN jobs
    /\ nextId \in DOMAIN jobs
    /\ jobs[nextId].status = "queued"

\* C24: the periodic cleanup task never ends: a sweep that raises leaves the
\* store as it is and takes the task to its sleep, from which the next sweep
\* is always ready to start.
C24_SweepFailureSwallowed ==
    /\ [](worker[CleanupTask].pc \in {"sweep", "sleep"})
    /\ [](worker[CleanupTask].pc = "sleep" => ENABLED SweepWake(CleanupTask))
    /\ [][SweepRaise(CleanupTask)
             => worker'[CleanupTask].pc = "sleep" /\ UNCHANGED storeVars]_vars

\* after a sweep raised, a later sweep has run and the job has been evicted
C24_Witness ==
    /\ worker[CleanupTask].err = "sweep failed"
    /\ worker[CleanupTask].step = 1
    /\ 1 \notin DOMAIN jobs

\* C25: set_progress(id, current, total, stage) stores current, total and
\* stage; percent is 0 when total is 0 and otherwise current / total * 100
\* (to whole per cent); one progress event with the same four values is
\* appended to the history and to every subscriber queue.
C25_ProgressPercent ==
    [][\A j \in JobIds, c \in ProgressArgs, t \in ProgressArgs, g \in ProgressStages :
          CallSetProgressWith(j, c, t, g)
              => LET p == jobs'[j].progress
                     ev == event_history'[j][Len(event_history'[j])]
                 IN  /\ p.current = c /\ p.total = t /\ p.stage = g
                     /\ t = 0 => p.percent = 0
                     /\ t > 0 => /\ p.percent * t <= c * 100
                                 /\ c * 100 < (p.percent + 1) * t
                     /\ emit_count'[j] = emit_count[j] + 1
                     /\ ev.event = "progress"
                     /\ ev.n = emit_count'[j]
                     /\ ev.data = [current |-> c, total |-> t,
                                   percent |-> p.percent, stage |-> g]
                     /\ \A q \in subscribers[j] : chan'[q] = Append(chan[q], ev)
                     /\ jobs'[j] = [jobs[j] EXCEPT !.progress = p]]_vars

\* progress was set with total 0 and a current that is not 0, and a
\* subscriber has taken the event
C25_Witness ==
    \E j \in DOMAIN jobs, s \in OneStream :
        /\ jobs[j].progress.total = 0
        /\ jobs[j].progress.current > 0
        /\ jobs[j].progress.percent = 0
        /\ Len(streams[s].delivered) > 0
        /\ streams[s].delivered[Len(streams[s].delivered)].data = jobs[j].progress

\* C26: every job whose status is failed carries an error message, and the
\* message is exactly the string passed to the fail call that produced the
\* status: fail(id, m) leaves status failed and error m and emits a failed
\* event carrying m, and no other call sets the status to failed or changes
\* the error.
C26_FailedCarriesMessage ==
    /\ [](\A j \in DOMAIN jobs :
            jobs[j].status = "failed" => jobs[j].error \in FailMessages)
    /\ [][\A j \in JobIds, m \in FailMessages :
            CallFailWith(j, m)
                => /\ jobs'[j].status = "failed"
                   /\ jobs'[j].error = m
                   /\ event_history'[j][Len(event_history'[j])].data
                        = [status |-> "failed", error |-> m]]_vars
    /\ [][\A j \in DOMAIN jobs :
            (\A m \in FailMessages : ~CallFailWith(j, m))
                => /\ jobs'[j].error = jobs[j].error
                   /\ jobs'[j].status = "failed" => jobs[j].status = "failed"]_vars

\* a running job was failed, and the subscriber has taken the failed event
C26_Witness ==
    \E j \in DOMAIN jobs, s \in Streams :
        /\ jobs[j].status = "failed"
        /\ jobs[j].started_at # None
        /\ jobs[j].error = "inference failed"
        /\ Len(streams[s].delivered) > 0
        /\ streams[s].delivered[Len(streams[s].delivered)].data
             = [status |-> "failed", error |-> "inference failed"]

\* C27: progress is reported only while the job is running: a step that
\* changes a job's progress or appends a progress event to its history is
\* taken while the job's status is running (after started, before the
\* terminal event).
\* Violated: set_progress has no status check, it stores the progress of a
\* queued or terminal job and emits the event.
C27_ProgressOnlyWhileRunning ==
    [][\A j \in DOMAIN jobs :
          (/\ j \in DOMAIN jobs'
           /\ \/ jobs'[j].progress # jobs[j].progress
              \/ /\ emit_count'[j] # emit_count[j]
                 /\ event_history'[j][Len(event_history'[j])].event = "progress")
              => jobs[j].status = "running"]_vars

\* the job ids in a lane's queue, as a set
InQueue(lane) == {queues[lane][i] : i \in 1..Len(queues[lane])}

\* C28: within one lane, job ids are handed to the executor in the order in
\* which their enqueue calls completed: a completed enqueue appends the id at
\* the back of the lane's queue, the worker takes the id at the front and
\* hands it to the executor, the queue changes in no other way, and no id is
\* in a queue twice or in a queue and in a worker's hands.
C28_LaneFifo ==
    /\ [](\A l \in JobType :
            /\ Cardinality(InQueue(l)) = Len(queues[l])
            /\ \A w \in Workers : worker[w].job \notin InQueue(l))
    /\ [][\A l \in JobType :
            queues'[l] # queues[l]
                => \/ \E j \in JobIds \ InQueue(l) : queues'[l] = Append(queues[l], j)
                   \/ /\ queues[l] # <<>>
                      /\ queues'[l] = Tail(queues[l])
                      /\ \E w \in Workers :
                            /\ Lane(w) = l
                            /\ worker[w].pc = "get"
                            /\ worker'[w].pc = "exec"
                            /\ worker'[w].job = Head(queues[l])]_vars

\* two jobs were enqueued in a lane with room for both; the worker holds the
\* one enqueued first while the one enqueued second waits
C28_Witness ==
    \E w \in Workers :
        /\ Limit(Lane(w)) >= 2
        /\ worker[w].pc = "exec"
        /\ worker[w].job = 1
        /\ queues[Lane(w)] = <<2>>
        /\ putters = {}

\* C29: in every reachable state the number of job ids waiting in a lane's
\* queue is at most the lane's limit; the job the lane worker is executing
\* is not counted.
C29_QueueWithinLimit ==
    \A l \in JobType : Len(queues[l]) <= Limit(l)

\* a lane whose worker is executing one job while its queue is at the limit
C29_Witness ==
    \E w \in Workers :
        /\ worker[w].pc \notin {"get", "dead"}
        /\ worker[w].job \in DOMAIN jobs
        /\ Len(queues[Lane(w)]) = Limit(Lane(w))

\* the executions that are about to swap the scheduler of the shared
\* pipeline (at "cs") or whose inference thread is using it (at "run")
PipelineUsers ==
    {e \in DOMAIN worker : Lane(e) = "img2img" /\ worker[e].pc \in {"cs", "run"}}

\* the step of e that calls set_scheduler(pipeline, ...)
SchedulerSwap(e) ==
    /\ Lane(e) = "img2img"
    /\ worker[e].pc = "cs"
    /\ worker'[e].pc # "cs"

C32_CancelledNeverExecuted ==
    /\ [][\A w \in Workers :
            (worker[w].pc = "get" /\ worker'[w].pc = "exec"
                /\ worker'[w].job \in DOMAIN jobs)
                => jobs[worker'[w].job].status # "cancelled"]_vars
    /\ [][\A j \in DOMAIN jobs :
            (jobs[j].status = "cancelled" /\ j \in DOMAIN jobs')
                => jobs'[j] = jobs[j]]_vars

\* C33: the terminal event is the last event of a job: in the history of a
\* job and in what a subscriber has received, no event follows a completed,
\* failed or cancelled event.
\* Violated: emit appends whatever the job's status is, and set_running,
\* set_progress, succeed and fail emit without looking at it.
C33_TerminalEventIsLast ==
    /\ \A j \in DOMAIN event_history :
          \A i \in 1..(Len(event_history[j]) - 1) :
              event_history[j][i].event \notin TerminalEvents
    /\ \A s \in DOMAIN chan :
          \A i \in 1..(Len(chan[s]) - 1) :
              chan[s][i].event \notin TerminalEvents

\* C34: for every live job the completion signal done is set if and only if
\* the status is succeeded, failed or cancelled, and ended_at is set if and
\* only if the status is terminal.
\* Violated: set_running assigns status running and leaves done and ended_at
\* of a job that was terminal.
C34_DoneIffTerminal ==
    \A j \in DOMAIN jobs :
        /\ jobs[j].done <=> jobs[j].status \in Terminal
        /\ jobs[j].ended_at # None <=> jobs[j].status \in Terminal

\* C35: a job with status succeeded has a result and no error, a job with
\* status failed has an error and no result, and a job with status queued,
\* running or cancelled has neither.
C35_ResultErrorMatchStatus ==
    \A j \in DOMAIN jobs :
        /\ jobs[j].status = "succeeded"
              => jobs[j].result # NoneStr /\ jobs[j].error = NoneStr
        /\ jobs[j].status = "failed"
              => jobs[j].error # NoneStr /\ jobs[j].result = NoneStr
        /\ jobs[j].status \in {"queued", "running", "cancelled"}
              => jobs[j].result = NoneStr /\ jobs[j].error = NoneStr

\* one job has succeeded and carries its result, another has failed and
\* carries its error
C35_Witness ==
    \E a \in DOMAIN jobs, b \in DOMAIN jobs :
        /\ jobs[a].status = "succeeded" /\ jobs[a].result = "result"
        /\ jobs[b].status = "failed" /\ jobs[b].error # NoneStr
        /\ jobs[b].cancel_requested

C37_CancelFlagMonotone ==
    /\ [](\A j \in DOMAIN jobs :
            jobs[j].status = "cancelled" => jobs[j].cancel_requested)
    /\ [][\A j \in DOMAIN jobs \cap DOMAIN jobs' :
            jobs[j].cancel_requested => jobs'[j].cancel_requested]_vars

\* a job whose cancellation was requested while it ran has since succeeded
\* and still carries the flag
C37_Witness ==
    \E j \in DOMAIN jobs :
        /\ jobs[j].cancel_requested
        /\ jobs[j].status = "succeeded"
        /\ jobs[j].started_at # None

\* C38: the job table, the subscriber map and the event-history map have the
\* same set of job ids as keys in every reachable state, and a stream that
\* ends on an evicted id leaves the three maps as they are.
C38_SameKeys ==
    /\ [](DOMAIN jobs = DOMAIN subscribers /\ DOMAIN jobs = DOMAIN event_history)
    /\ [][\A s \in DOMAIN streams :
            (StreamDisconnect(s) /\ streams[s].job \notin DOMAIN jobs)
                => UNCHANGED <<jobs, subscribers, event_history>>]_vars

\* a stream has ended on a job that is evicted, while a job created later is
\* in the table
C38_Witness ==
    \E s \in DOMAIN streams :
        /\ streams[s].pc = "closed"
        /\ streams[s].job \in JobIds \ DOMAIN jobs
        /\ DOMAIN jobs # {}

\* a task that has nothing left to pass, or the lane worker at queue.get
Resting(t) == NextStep(t) \in {"none", "get"}

\* C39: no task is at an await that can suspend it (the store lock, a
\* permit, a lane-queue slot, the inference) while it holds the store lock;
\* the lock is held by at most one task; and no task stays suspended for
\* ever: every task comes to the end of its coroutine (the lane worker to
\* its next queue.get) again and again.
C39_NoWaitUnderLock ==
    /\ [](\A t \in LockTasks : NextStep(t) \in WaitSteps => ~HoldsLock(t))
    /\ [](sem[StoreLock] = 1 - Cardinality({t \in LockTasks : HoldsLock(t)}))
    /\ \A t \in LockTasks : []<>Resting(t)

\* the lane worker holds the triposr permit and waits for the store lock,
\* which a request handler holds, while another handler waits for a slot of
\* the full lane
C39_Witness ==
    \E t \in LockCallers, u \in LockCallers :
        /\ HoldsLock(t)
        /\ NextStep(u) = "put"
        /\ Full("triposr")
        /\ NextStep(LaneTask) = "lock"
        /\ sem["triposr"] = 0

====
